---- MODULE Spec2Model ----
(***************************************************************************)
(* A model of the `before` crate (src/src/lib.rs): type-level converters   *)
(* (trait Conversion), the untagged OldOrNew resolver behind               *)
(* Conversion::de and Legacy::deserialize, and the transparent Legacy      *)
(* holder.                                                                 *)
(*                                                                         *)
(* The crate is generic.  The model instantiates its type parameters with  *)
(* u8, u16, String, Vec<_>, BTreeMap<String,_> and Result<_,_>; u16 -> u8  *)
(* plays the part the tests give to u64 -> u32 (a fallible narrowing).     *)
(* Every value carries a tag in its first component:                       *)
(*   Rust values   <<"int",n>> <<"string",chars>> <<"vec",items>>          *)
(*                 <<"map",f>> <<"Ok",v>> <<"Err",e>> <<"error",kind>>     *)
(*                 <<"Legacy","PhantomData",v>>                            *)
(*   documents     <<"U64",n>> <<"Str",chars>> <<"Seq",items>>             *)
(*                 <<"Map",entries>>   (what a self-describing format      *)
(*                 hands to serde: numbers, strings, arrays, objects)      *)
(* Strings are sequences of one-character strings, so that parsing and     *)
(* formatting are computed digit by digit.                                 *)
(***************************************************************************)
EXTENDS Integers, Sequences, FiniteSets

(***************************************************************************)
(* Bounds of the explored inputs.                                          *)
(***************************************************************************)
\* longest text explored
MaxChars == 3
\* longest Vec / array explored
MaxElems == 2

(***************************************************************************)
(* Types.                                                                  *)
(***************************************************************************)
U8 == <<"u8">>
U16 == <<"u16">>
StringT == <<"String">>
Vec(t) == <<"Vec", t>>
BTreeMap(v) == <<"BTreeMap", StringT, v>>
Result(t, e) == <<"Result", t, e>>
TryFromIntError == <<"TryFromIntError">>
ParseIntError == <<"ParseIntError">>

IsInt(t) == t = U8 \/ t = U16
IntMax(t) == IF t = U8 THEN 255 ELSE 65535

(***************************************************************************)
(* Rust values.                                                            *)
(***************************************************************************)
IntV(n) == <<"int", n>>
StrV(cs) == <<"string", cs>>
VecV(items) == <<"vec", items>>
MapV(f) == <<"map", f>>
Ok(v) == <<"Ok", v>>
Err(e) == <<"Err", e>>
Error(kind) == <<"error", kind>>
\* the error of a failed decode (D::Error)
DeError(msg) == <<"de::Error", msg>>

IsOk(r) == r[1] = "Ok"
IsErr(r) == r[1] = "Err"

\* T::default()
Default(t) ==
  CASE IsInt(t) -> IntV(0)
    [] t = StringT -> StrV(<<>>)
    [] t[1] = "Vec" -> VecV(<<>>)
    [] t[1] = "BTreeMap" -> MapV(<<>>)

\* Result::unwrap_or_default
unwrap_or_default(r, t) == IF IsOk(r) THEN r[2] ELSE Default(t)

(***************************************************************************)
(* Text: byte order of String, integer parsing and formatting.             *)
(***************************************************************************)
Digits == <<"0", "1", "2", "3", "4", "5", "6", "7", "8", "9">>

DigitVal(c) ==
  IF \E i \in 1..10 : Digits[i] = c
  THEN (CHOOSE i \in 1..10 : Digits[i] = c) - 1
  ELSE -1

\* the bytes of the characters that occur in the keys of serialized maps
Byte(c) ==
  CASE c = "+" -> 43
    [] c = "-" -> 45
    [] DigitVal(c) >= 0 -> 48 + DigitVal(c)
    [] c = "a" -> 97

\* a < b for strings (lexicographic on bytes)
RECURSIVE StrLess(_, _)
StrLess(a, b) ==
  IF b = <<>> THEN FALSE
  ELSE IF a = <<>> THEN TRUE
  ELSE IF Byte(Head(a)) # Byte(Head(b)) THEN Byte(Head(a)) < Byte(Head(b))
  ELSE StrLess(Tail(a), Tail(b))

\* the digit loop of <uN as FromStr>::from_str
RECURSIVE ParseDigits(_, _, _)
ParseDigits(ds, acc, max) ==
  IF ds = <<>> THEN Ok(IntV(acc))
  ELSE IF DigitVal(Head(ds)) < 0 THEN Err(Error("InvalidDigit"))
  ELSE IF acc * 10 > max THEN Err(Error("PosOverflow"))
  ELSE IF acc * 10 + DigitVal(Head(ds)) > max THEN Err(Error("PosOverflow"))
  ELSE ParseDigits(Tail(ds), acc * 10 + DigitVal(Head(ds)), max)

\* str::parse::<T>() for the unsigned integers and for String
FromStr(t, cs) ==
  IF t = StringT THEN Ok(StrV(cs))
  ELSE IF cs = <<>> THEN Err(Error("Empty"))
  ELSE IF Len(cs) = 1 /\ Head(cs) \in {"+", "-"} THEN Err(Error("InvalidDigit"))
  ELSE IF Head(cs) = "+" THEN ParseDigits(Tail(cs), 0, IntMax(t))
  ELSE ParseDigits(cs, 0, IntMax(t))

\* decimal rendering of an unsigned integer
RECURSIVE Decimal(_)
Decimal(n) ==
  IF n < 10 THEN <<Digits[n + 1]>>
  ELSE Decimal(n \div 10) \o <<Digits[(n % 10) + 1]>>

\* T::to_string() for integers and String
to_string(val) ==
  IF val[1] = "int" THEN StrV(Decimal(val[2])) ELSE val

\* TryInto between the unsigned integers
try_into(val, u) ==
  IF val[2] <= IntMax(u) THEN Ok(val) ELSE Err(Error("TryFromIntError"))

(***************************************************************************)
(* Converters: the marker types implementing trait Conversion.  A marker   *)
(* is its name and its type parameters; the collection parameter C is      *)
(* Vec<_> (Collect, Map) or BTreeMap<String,_> (CollectDefaultKey).        *)
(***************************************************************************)
Identity(t) == <<"Identity", t>>
Convert(t, u) == <<"Convert", t, u>>
Collect(i) == <<"Collect", i, Vec(i)>>
CollectDefaultKey(v) == <<"CollectDefaultKey", StringT, v, BTreeMap(v)>>
TryConvert(t, u) == <<"TryConvert", t, u>>
TryConvertOrDefault(t, u) == <<"TryConvertOrDefault", t, u>>
Parse(t) == <<"Parse", t>>
ParseOrDefault(t) == <<"ParseOrDefault", t>>
Compose(a, b) == <<"Compose", a, b>>
ToString(t) == <<"ToString", t>>

\* Conversion::Input
RECURSIVE Input(_)
Input(c) ==
  CASE c[1] \in {"Identity", "Convert", "Collect", "TryConvert",
                 "TryConvertOrDefault", "ToString"} -> c[2]
    [] c[1] = "CollectDefaultKey" -> c[3]
    [] c[1] \in {"Parse", "ParseOrDefault"} -> StringT
    [] c[1] = "Compose" -> Input(c[2])
    [] c[1] = "Map" -> Vec(Input(c[2]))

\* Conversion::Output
RECURSIVE Output(_)
Output(c) ==
  CASE c[1] = "Identity" -> c[2]
    [] c[1] \in {"Convert", "Collect", "TryConvertOrDefault"} -> c[3]
    [] c[1] = "CollectDefaultKey" -> c[4]
    [] c[1] = "TryConvert" -> Result(c[3], TryFromIntError)
    [] c[1] = "Parse" -> Result(c[2], ParseIntError)
    [] c[1] = "ParseOrDefault" -> c[2]
    [] c[1] = "Compose" -> Output(c[3])
    [] c[1] = "Map" -> Vec(Output(c[2]))
    [] c[1] = "ToString" -> StringT

Map(f) == <<"Map", f, Vec(Input(f)), Vec(Output(f))>>

\* iter::once(val).collect::<Vec<_>>()
collect_vec(items) == VecV(items)

\* iter::once((k, v)).collect::<BTreeMap<_,_>>(): later entries replace
\* earlier ones with the same key
collect_map(entries) ==
  LET keys == {entries[i][1] : i \in 1..Len(entries)}
      last(k) == CHOOSE i \in 1..Len(entries) :
                   /\ entries[i][1] = k
                   /\ \A j \in (i + 1)..Len(entries) : entries[j][1] # k
  IN MapV([k \in keys |-> entries[last(k)][2]])

Convert_convert(c, val) == val

\* a Collect that loses the value
Collect_convert_empty(c, val) == collect_vec(<<>>)
Collect_convert(c, val) == collect_vec(<<val>>)

\* a CollectDefaultKey that keys the value at "a" instead of K::default()
CollectDefaultKey_convert_other_key(c, val) ==
  collect_map(<< <<StrV(<<"a">>), val>> >>)
CollectDefaultKey_convert(c, val) == collect_map(<< <<Default(c[2]), val>> >>)

\* a TryConvert that hides the failure behind the default
TryConvert_convert_defaulting(c, val) ==
  unwrap_or_default(try_into(val, c[3]), c[3])
TryConvert_convert(c, val) == try_into(val, c[3])

\* a truncating cast (val as U) in place of try_into().unwrap_or_default()
TryConvertOrDefault_wrapping(c, val) == IntV(val[2] % (IntMax(c[3]) + 1))
TryConvertOrDefault_convert(c, val) ==
  unwrap_or_default(try_into(val, c[3]), c[3])

Parse_convert(c, val) == FromStr(c[2], val[2])

ParseOrDefault_convert(c, val) == unwrap_or_default(FromStr(c[2], val[2]), c[2])

Identity_convert(c, val) == val

ToString_convert(c, val) == to_string(val)

RECURSIVE convert(_, _)

\* a Compose that stops after A
Compose_convert_first_only(c, val) == convert(c[2], val)
Compose_convert(c, val) == convert(c[3], convert(c[2], val))

Map_convert(c, val) ==
  collect_vec([i \in 1..Len(val[2]) |-> convert(c[2], val[2][i])])

\* Conversion::convert, dispatched on the marker type
convert(c, val) ==
  CASE c[1] = "Identity" -> Identity_convert(c, val)
    [] c[1] = "Convert" -> Convert_convert(c, val)
    [] c[1] = "Collect" -> Collect_convert(c, val)
    [] c[1] = "CollectDefaultKey" -> CollectDefaultKey_convert(c, val)
    [] c[1] = "TryConvert" -> TryConvert_convert(c, val)
    [] c[1] = "TryConvertOrDefault" -> TryConvertOrDefault_convert(c, val)
    [] c[1] = "Parse" -> Parse_convert(c, val)
    [] c[1] = "ParseOrDefault" -> ParseOrDefault_convert(c, val)
    [] c[1] = "Compose" -> Compose_convert(c, val)
    [] c[1] = "Map" -> Map_convert(c, val)
    [] c[1] = "ToString" -> ToString_convert(c, val)

(***************************************************************************)
(* serde: the Serialize and Deserialize implementations of the types the   *)
(* crate is instantiated with, over documents of a self-describing format. *)
(* The two error types stand for error types that implement Deserialize    *)
(* (Conversion::de requires Self::Output: Deserialize); they are encoded   *)
(* by name, as serde encodes a unit variant.                               *)
(***************************************************************************)
WU64(n) == <<"U64", n>>
WStr(cs) == <<"Str", cs>>
WSeq(items) == <<"Seq", items>>
WMap(entries) == <<"Map", entries>>

ErrorName(kind) ==
  CASE kind = "TryFromIntError" -> <<"T", "r", "y">>
    [] kind = "Empty" -> <<"E", "m", "p", "t", "y">>
    [] kind = "InvalidDigit" -> <<"D", "i", "g", "i", "t">>
    [] kind = "PosOverflow" -> <<"O", "v", "e", "r">>

ErrorKinds(t) ==
  IF t = TryFromIntError THEN {"TryFromIntError"}
  ELSE {"Empty", "InvalidDigit", "PosOverflow"}

\* the keys of a BTreeMap in iteration order
RECURSIVE SortedKeys(_)
SortedKeys(keys) ==
  IF keys = {} THEN <<>>
  ELSE LET m == CHOOSE k \in keys :
                  \A j \in keys : j = k \/ StrLess(k[2], j[2])
       IN <<m>> \o SortedKeys(keys \ {m})

RECURSIVE Serialize(_)
Serialize(val) ==
  CASE val[1] = "int" -> WU64(val[2])
    [] val[1] = "string" -> WStr(val[2])
    [] val[1] = "vec" -> WSeq([i \in 1..Len(val[2]) |-> Serialize(val[2][i])])
    [] val[1] = "map" ->
         LET ks == SortedKeys(DOMAIN val[2])
         IN WMap([i \in 1..Len(ks) |->
                    <<WStr(ks[i][2]), Serialize(val[2][ks[i]])>>])
    [] val[1] = "Ok" -> WMap(<< <<WStr(<<"O", "k">>), Serialize(val[2])>> >>)
    [] val[1] = "Err" -> WMap(<< <<WStr(<<"E", "r", "r">>), Serialize(val[2])>> >>)
    [] val[1] = "error" -> WStr(ErrorName(val[2]))

InvalidType == Err(DeError("invalid type"))
InvalidValue == Err(DeError("invalid value"))

RECURSIVE Deserialize(_, _)
Deserialize(t, w) ==
  CASE IsInt(t) ->
         IF w[1] # "U64" THEN InvalidType
         ELSE IF w[2] > IntMax(t) THEN InvalidValue
         ELSE Ok(IntV(w[2]))
    [] t = StringT ->
         IF w[1] # "Str" THEN InvalidType ELSE Ok(StrV(w[2]))
    [] t[1] = "Vec" ->
         IF w[1] # "Seq" THEN InvalidType
         ELSE LET items == [i \in 1..Len(w[2]) |-> Deserialize(t[2], w[2][i])]
              IN IF \E i \in 1..Len(items) : IsErr(items[i])
                 THEN items[CHOOSE i \in 1..Len(items) :
                              /\ IsErr(items[i])
                              /\ \A j \in 1..(i - 1) : IsOk(items[j])]
                 ELSE Ok(collect_vec([i \in 1..Len(items) |-> items[i][2]]))
    [] t[1] = "BTreeMap" ->
         IF w[1] # "Map" THEN InvalidType
         ELSE LET n == Len(w[2])
                  keys == [i \in 1..n |-> Deserialize(t[2], w[2][i][1])]
                  vals == [i \in 1..n |-> Deserialize(t[3], w[2][i][2])]
              IN IF \E i \in 1..n : IsErr(keys[i]) \/ IsErr(vals[i])
                 THEN InvalidType
                 ELSE Ok(collect_map([i \in 1..n |-> <<keys[i][2], vals[i][2]>>]))
    [] t[1] = "Result" ->
         IF w[1] # "Map" THEN InvalidType
         ELSE IF Len(w[2]) # 1 THEN InvalidValue
         ELSE IF w[2][1][1] = WStr(<<"O", "k">>)
              THEN LET r == Deserialize(t[2], w[2][1][2])
                   IN IF IsOk(r) THEN Ok(Ok(r[2])) ELSE r
         ELSE IF w[2][1][1] = WStr(<<"E", "r", "r">>)
              THEN LET r == Deserialize(t[3], w[2][1][2])
                   IN IF IsOk(r) THEN Ok(Err(r[2])) ELSE r
         ELSE Err(DeError("unknown variant"))
    [] t = TryFromIntError \/ t = ParseIntError ->
         IF w[1] # "Str" THEN InvalidType
         ELSE IF \E k \in ErrorKinds(t) : ErrorName(k) = w[2]
              THEN Ok(Error(CHOOSE k \in ErrorKinds(t) : ErrorName(k) = w[2]))
         ELSE Err(DeError("unknown variant"))

(***************************************************************************)
(* The resolver: enum OldOrNew and the two entry points that use it.       *)
(***************************************************************************)
New(n) == <<"New", n>>
Old(o) == <<"Old", o>>

\* OldOrNew with its variants declared in the other order: Old(O), New(N)
OldOrNew_old_first(O, N, w) ==
  LET n == Deserialize(N, w)
      o == Deserialize(O, w)
  IN IF IsOk(o) THEN Ok(Old(o[2]))
     ELSE IF IsOk(n) THEN Ok(New(n[2]))
     ELSE Err(DeError("data did not match any variant of untagged enum OldOrNew"))

\* #[derive(Deserialize)] #[serde(untagged)] enum OldOrNew<O, N>: the
\* variants are tried in declaration order against the buffered document
OldOrNew_deserialize(O, N, w) ==
  LET n == Deserialize(N, w)
      o == Deserialize(O, w)
  IN IF IsOk(n) THEN Ok(New(n[2]))
     ELSE IF IsOk(o) THEN Ok(Old(o[2]))
     ELSE Err(DeError("data did not match any variant of untagged enum OldOrNew"))

\* into_new that forgets to apply f to the old value
into_new_unconverted(oon, c) == <<oon[2], <<>>>>

\* OldOrNew::into_new(self, f) with f = C::convert: <<the result, the
\* arguments f was called with>>
into_new(oon, c) ==
  IF oon[1] = "Old" THEN <<convert(c, oon[2]), <<oon[2]>>>>
  ELSE <<oon[2], <<>>>>

\* a de that swallows the decode error and returns a default
de_or_default(c, w) ==
  LET r == OldOrNew_deserialize(Input(c), Output(c), w)
  IN IF IsOk(r)
     THEN <<Ok(into_new(r[2], c)[1]), r[2][1], into_new(r[2], c)[2]>>
     ELSE <<Ok(IntV(0)), "None", <<>>>>

\* Conversion::de: <<the Result, the variant decoded, the calls of convert>>
de(c, w) ==
  LET r == OldOrNew_deserialize(Input(c), Output(c), w)
  IN IF IsOk(r)
     THEN <<Ok(into_new(r[2], c)[1]), r[2][1], into_new(r[2], c)[2]>>
     ELSE <<r, "None", <<>>>>

(***************************************************************************)
(* struct Legacy<C, T> { pd: PhantomData<C>, new: T }                      *)
(***************************************************************************)
Legacy(pd, new) == <<"Legacy", pd, new>>
PhantomData == "PhantomData"
new_of(legacy) == legacy[3]

Legacy_into_inner(legacy) == new_of(legacy)
Legacy_from(new) == Legacy(PhantomData, new)
\* Serialize derived for the struct instead of delegated to the held value
Legacy_serialize_derived(legacy) ==
  WMap(<< <<WStr(<<"n", "e", "w">>), Serialize(new_of(legacy))>> >>)
Legacy_serialize(legacy) == Serialize(new_of(legacy))

\* <Legacy<C, T> as Deserialize>::deserialize, observed like de
Legacy_deserialize(c, w) ==
  LET r == OldOrNew_deserialize(Input(c), Output(c), w)
  IN IF IsOk(r)
     THEN <<Ok(Legacy(PhantomData, into_new(r[2], c)[1])), r[2][1],
            into_new(r[2], c)[2]>>
     ELSE <<r, "None", <<>>>>

\* Display for the integers and String
fmt(val) == to_string(val)[2]
\* Ord::cmp and PartialOrd::partial_cmp of the integers
cmp(v, w) ==
  IF v[2] < w[2] THEN "Less" ELSE IF v[2] = w[2] THEN "Equal" ELSE "Greater"
partial_cmp(v, w) == <<"Some", cmp(v, w)>>
\* Hash::hash of an integer: the value is written to the hasher
hash(v, state) == Append(state, v[2])

Legacy_fmt(legacy) == fmt(new_of(legacy))
Legacy_clone(legacy) == Legacy(PhantomData, new_of(legacy))
Legacy_eq(a, b) == new_of(a) = new_of(b)
Legacy_partial_cmp(a, b) == partial_cmp(new_of(a), new_of(b))
\* cmp with its operands swapped
Legacy_cmp_reversed(a, b) == cmp(new_of(b), new_of(a))
Legacy_cmp(a, b) == cmp(new_of(a), new_of(b))
Legacy_hash(legacy, state) == hash(new_of(legacy), state)
Legacy_default(t) == Legacy(PhantomData, Default(t))
Legacy_as_ref(legacy) == new_of(legacy)
Legacy_borrow(legacy) == new_of(legacy)
Legacy_deref(legacy) == new_of(legacy)
\* `*legacy = v` through DerefMut::deref_mut (or AsMut::as_mut)
Legacy_deref_mut(legacy, v) == Legacy(legacy[2], v)

(***************************************************************************)
(* The structs of simple_test.                                             *)
(***************************************************************************)
FieldVal == <<"v", "a", "l">>
FieldVals == <<"v", "a", "l", "s">>

\* #[derive(Serialize)] struct OldFoo { val }
OldFoo_serialize(val) == WMap(<< <<WStr(FieldVal), Serialize(val)>> >>)

\* the deserialize_with of NewFoo::vals
NewFoo_vals == Compose(TryConvertOrDefault(U16, U8), Collect(U8))

NewFoo(vals) == <<"NewFoo", vals>>

\* #[derive(Deserialize)] struct NewFoo { #[serde(alias = "val")] vals },
\* observed like de
NewFoo_deserialize(w) ==
  IF w[1] = "Map"
  THEN LET hits == {i \in 1..Len(w[2]) :
                      w[2][i][1] \in {WStr(FieldVals), WStr(FieldVal)}}
       IN IF hits = {} THEN <<Err(DeError("missing field vals")), "None", <<>>>>
          ELSE LET first == CHOOSE i \in hits : \A j \in hits : i <= j
                   r == de(NewFoo_vals, w[2][first][2])
               IN IF IsErr(r[1]) THEN r
                  ELSE IF Cardinality(hits) > 1
                  THEN <<Err(DeError("duplicate field vals")), "None", <<>>>>
                  ELSE <<Ok(NewFoo(r[1][2])), r[2], r[3]>>
  ELSE IF w[1] = "Seq"
  THEN IF Len(w[2]) = 0
       THEN <<Err(DeError("invalid length")), "None", <<>>>>
       ELSE LET r == de(NewFoo_vals, w[2][1])
            IN IF IsErr(r[1]) THEN r
               ELSE IF Len(w[2]) > 1
               THEN <<Err(DeError("invalid length")), "None", <<>>>>
               ELSE <<Ok(NewFoo(r[1][2])), r[2], r[3]>>
  ELSE <<InvalidType, "None", <<>>>>

(***************************************************************************)
(* The inputs explored.                                                    *)
(***************************************************************************)
Alphabet == {"2", "5", "6"}

Texts ==
  UNION {[1..k -> Alphabet] : k \in 0..MaxChars}
    \cup {<<"a">>, <<"+">>, <<"+", "5">>, <<"0", "5">>, <<"5", "a">>, <<"-", "5">>}

\* the elements the explored collections are built from
Elems(t) ==
  CASE t = U8 -> {IntV(5), IntV(255)}
    [] t = U16 -> {IntV(5), IntV(256)}
    [] t = StringT -> {StrV(<<"5">>), StrV(<<"a">>)}
    [] t = Vec(U8) -> {VecV(<<>>), VecV(<<IntV(5)>>)}
    [] t = BTreeMap(U8) -> {MapV(<<>>), MapV([k \in {StrV(<<>>)} |-> IntV(5)])}

Keys == {StrV(<<>>), StrV(<<"a">>)}

\* the values of type t explored
Values(t) ==
  CASE t = U8 -> {IntV(0), IntV(5), IntV(255)}
    [] t = U16 -> {IntV(0), IntV(5), IntV(255), IntV(256), IntV(65535)}
    [] t = StringT -> {StrV(cs) : cs \in Texts}
    [] t[1] = "Vec" ->
         {VecV(items) : items \in UNION {[1..k -> Elems(t[2])] : k \in 0..MaxElems}}
    [] t[1] = "BTreeMap" ->
         {MapV(f) : f \in UNION {[K -> Elems(t[3])] : K \in SUBSET Keys}}
    [] t[1] = "Result" ->
         {Ok(v) : v \in Elems(t[2])} \cup {Err(Error(k)) : k \in ErrorKinds(t[3])}

Types ==
  {U8, U16, StringT, Vec(U8), Vec(U16), Vec(StringT), Vec(Vec(U8)),
   BTreeMap(U8), BTreeMap(BTreeMap(U8)),
   Result(U8, TryFromIntError), Result(U8, ParseIntError)}

RustValues == UNION {Values(t) : t \in Types}

\* documents that were not written by this program
Foreign ==
  {WU64(300), WU64(65536),
   WSeq(<<WU64(5), WStr(<<"a">>)>>),
   WSeq(<<WU64(300)>>),
   WMap(<< <<WStr(FieldVal), WU64(5)>> >>),
   WMap(<< <<WStr(FieldVal), WU64(300)>> >>),
   WMap(<< <<WStr(FieldVals), WSeq(<<WU64(5)>>)>> >>),
   WMap(<< <<WStr(FieldVals), WSeq(<<WU64(5)>>)>>, <<WStr(FieldVal), WU64(5)>> >>),
   WMap(<< <<WStr(<<"a">>), WU64(5)>>, <<WStr(<<"a">>), WU64(255)>> >>),
   WMap(<< <<WStr(<<"O", "k">>), WU64(300)>> >>),
   WMap(<< <<WStr(<<"O", "k">>), WU64(5)>>, <<WStr(<<"E", "r", "r">>), WU64(5)>> >>),
   WMap(<< <<WStr(<<"E", "r", "r">>), WStr(<<"a">>)>> >>)}

Documents == {Serialize(v) : v \in RustValues} \cup Foreign

BaseConverters ==
  {Identity(U8), Identity(U16), Identity(StringT), Convert(U8, U16),
   Collect(U8), Collect(Vec(U8)),
   CollectDefaultKey(U8), CollectDefaultKey(BTreeMap(U8)),
   TryConvert(U16, U8), TryConvertOrDefault(U16, U8),
   Parse(U8), ParseOrDefault(U8), ToString(U8),
   Map(ToString(U8)), Map(TryConvertOrDefault(U16, U8))}

\* Compose<A, B> exists where A::Output = B::Input
Converters ==
  BaseConverters \cup
    {Compose(a, b) : <<a, b>> \in
       {p \in BaseConverters \X BaseConverters : Output(p[1]) = Input(p[2])}}

(***************************************************************************)
(* State: the document at hand and the value it was serialized from, the   *)
(* last call made and what it returned, and two Legacy holders beside the  *)
(* plain values the same operations were applied to.  A run is one call of *)
(* a converter, or one document written or received and then decoded once: *)
(* the crate keeps no state between calls.                                 *)
(***************************************************************************)
VARIABLES wire, src, op, conv, arg, outcome, variant, calls, hold, plain, got

vars == <<wire, src, op, conv, arg, outcome, variant, calls, hold, plain, got>>
docVars == <<wire, src>>
callVars == <<op, conv, arg, outcome, variant, calls>>
legacyVars == <<hold, plain, got>>

None == <<"None">>

Init ==
  /\ wire = None
  /\ src = None
  /\ op = "none"
  /\ conv = None
  /\ arg = None
  /\ outcome = None
  /\ variant = "None"
  /\ calls = <<>>
  /\ hold = <<None, None>>
  /\ plain = <<None, None>>
  /\ got = None

NoCall ==
  /\ conv' = None
  /\ arg' = None
  /\ outcome' = None
  /\ variant' = "None"
  /\ calls' = <<>>

\* serde_json::to_string(&v)
to_string_T(v) ==
  /\ op = "none"
  /\ wire' = Serialize(v)
  /\ src' = v
  /\ op' = "to_string"
  /\ NoCall
  /\ UNCHANGED legacyVars

\* serde_json::to_string(&Legacy::<C, T>::from(v))
to_string_Legacy(v) ==
  /\ op = "none"
  /\ wire' = Legacy_serialize(Legacy_from(v))
  /\ src' = Legacy_from(v)
  /\ op' = "to_string"
  /\ NoCall
  /\ UNCHANGED legacyVars

\* serde_json::to_string(&OldFoo { val })
to_string_OldFoo(val) ==
  /\ op = "none"
  /\ wire' = OldFoo_serialize(val)
  /\ src' = <<"OldFoo", val>>
  /\ op' = "to_string"
  /\ NoCall
  /\ UNCHANGED legacyVars

\* a document arrives from elsewhere
Receive(w) ==
  /\ op = "none"
  /\ wire' = w
  /\ src' = None
  /\ op' = "receive"
  /\ NoCall
  /\ UNCHANGED legacyVars

\* a field decoded with deserialize_with = "C::de"
from_str_de(c) ==
  /\ op \in {"to_string", "receive"}
  /\ op' = "de"
  /\ conv' = c
  /\ arg' = None
  /\ outcome' = de(c, wire)[1]
  /\ variant' = de(c, wire)[2]
  /\ calls' = de(c, wire)[3]
  /\ UNCHANGED <<docVars, legacyVars>>

\* serde_json::from_str::<Legacy<C, T>>(&wire)
from_str_Legacy(c) ==
  /\ op \in {"to_string", "receive"}
  /\ op' = "Legacy::deserialize"
  /\ conv' = c
  /\ arg' = None
  /\ outcome' = Legacy_deserialize(c, wire)[1]
  /\ variant' = Legacy_deserialize(c, wire)[2]
  /\ calls' = Legacy_deserialize(c, wire)[3]
  /\ UNCHANGED <<docVars, legacyVars>>

\* serde_json::from_str::<NewFoo>(&wire)
from_str_NewFoo ==
  /\ op \in {"to_string", "receive"}
  /\ op' = "NewFoo::deserialize"
  /\ conv' = NewFoo_vals
  /\ arg' = None
  /\ outcome' = NewFoo_deserialize(wire)[1]
  /\ variant' = NewFoo_deserialize(wire)[2]
  /\ calls' = NewFoo_deserialize(wire)[3]
  /\ UNCHANGED <<docVars, legacyVars>>

\* C::convert(val), called directly
call_convert(c, val) ==
  /\ op = "none"
  /\ op' = "convert"
  /\ conv' = c
  /\ arg' = val
  /\ outcome' = convert(c, val)
  /\ variant' = "None"
  /\ calls' = <<val>>
  /\ UNCHANGED <<docVars, legacyVars>>

Next ==
  \/ \E v \in RustValues : to_string_T(v)
  \/ \E v \in RustValues : to_string_Legacy(v)
  \/ \E val \in Values(U16) : to_string_OldFoo(val)
  \/ \E w \in Documents : Receive(w)
  \/ \E c \in Converters : from_str_de(c)
  \/ \E c \in Converters : from_str_Legacy(c)
  \/ from_str_NewFoo
  \/ \E c \in Converters : \E val \in Values(Input(c)) : call_convert(c, val)

Spec == Init /\ [][Next]_vars

(***************************************************************************)
(* The Legacy holder, T = u16.  plain[i] is the plain T that went through  *)
(* the same operations as hold[i]; got is what the last into_inner handed  *)
(* out, beside the plain value at that time.                               *)
(***************************************************************************)
Slots == {1, 2}

\* hold[i] = Legacy::from(v)
Legacy_From(i, v) ==
  /\ hold' = [hold EXCEPT ![i] = Legacy_from(v)]
  /\ plain' = [plain EXCEPT ![i] = v]
  /\ UNCHANGED <<got, docVars, callVars>>

\* hold[i] = Legacy::default()
Legacy_Default(i) ==
  /\ hold' = [hold EXCEPT ![i] = Legacy_default(U16)]
  /\ plain' = [plain EXCEPT ![i] = Default(U16)]
  /\ UNCHANGED <<got, docVars, callVars>>

\* hold[j] = hold[i].clone()
Legacy_Clone(i, j) ==
  /\ hold[i] # None
  /\ hold' = [hold EXCEPT ![j] = Legacy_clone(hold[i])]
  /\ plain' = [plain EXCEPT ![j] = plain[i]]
  /\ UNCHANGED <<got, docVars, callVars>>

\* *hold[i] = v
Legacy_DerefMut(i, v) ==
  /\ hold[i] # None
  /\ hold' = [hold EXCEPT ![i] = Legacy_deref_mut(hold[i], v)]
  /\ plain' = [plain EXCEPT ![i] = v]
  /\ UNCHANGED <<got, docVars, callVars>>

\* got = Legacy::into_inner(hold[i]), which moves hold[i] away
Legacy_IntoInner(i) ==
  /\ hold[i] # None
  /\ got' = <<Legacy_into_inner(hold[i]), plain[i]>>
  /\ hold' = [hold EXCEPT ![i] = None]
  /\ plain' = [plain EXCEPT ![i] = None]
  /\ UNCHANGED <<docVars, callVars>>

NextLegacy ==
  \/ \E i \in Slots : \E v \in Values(U16) : Legacy_From(i, v)
  \/ \E i \in Slots : Legacy_Default(i)
  \/ \E i \in Slots : \E j \in Slots \ {i} : Legacy_Clone(i, j)
  \/ \E i \in Slots : \E v \in Values(U16) : Legacy_DerefMut(i, v)
  \/ \E i \in Slots : Legacy_IntoInner(i)

SpecLegacy == Init /\ [][NextLegacy]_vars

(***************************************************************************)
(* Properties.                                                             *)
(***************************************************************************)
\* the last call went through the resolver
Decoded == op \in {"de", "Legacy::deserialize"}

\* the value a successful resolver call produced
Value == IF op = "Legacy::deserialize" THEN Legacy_deref(outcome[2]) ELSE outcome[2]

\* the document at hand read as the converter's old and new shape
AsOld == Deserialize(Input(conv), wire)
AsNew == Deserialize(Output(conv), wire)

\* C1: every successful decode through Conversion::de or Legacy::deserialize
\* took exactly one of the two variants; decoded as the old-shaped value o it
\* returns C::convert(o), convert having been called once, with o; decoded as
\* the new-shaped value n it returns n itself and convert was not called.
C1_DecodeNormalizes ==
  (Decoded /\ IsOk(outcome)) =>
    /\ variant \in {"New", "Old"}
    /\ variant = "Old" =>
         /\ IsOk(AsOld)
         /\ Value = convert(conv, AsOld[2])
         /\ calls = <<AsOld[2]>>
    /\ variant = "New" =>
         /\ IsOk(AsNew)
         /\ Value = AsNew[2]
         /\ calls = <<>>

\* C1 witness: a legacy scalar decoded as Old and converted to a one-element Vec
C1_Witness ==
  /\ op = "de"
  /\ conv = Compose(TryConvertOrDefault(U16, U8), Collect(U8))
  /\ wire = WU64(5)
  /\ variant = "Old"
  /\ outcome = Ok(VecV(<<IntV(5)>>))

\* C2: the new shape is tried first: a document that matches the new shape
\* (also one that matches the old shape too) decodes as New and convert is not
\* called; Old is produced only for documents that fail the new shape and
\* match the old one.
C2_NewShapeFirst ==
  Decoded =>
    /\ IsOk(AsNew) => (IsOk(outcome) /\ variant = "New" /\ calls = <<>>)
    /\ variant = "Old" => (IsErr(AsNew) /\ IsOk(AsOld))

\* C2 witness: [] matches Vec<u8> (old) and Vec<Vec<u8>> (new); it stays []
\* instead of becoming [[]]
C2_Witness ==
  /\ op = "de"
  /\ conv = Collect(Vec(U8))
  /\ wire = WSeq(<<>>)
  /\ IsOk(AsOld)
  /\ variant = "New"
  /\ outcome = Ok(VecV(<<>>))

\* C7: a document that conforms to neither shape makes Conversion::de and
\* Legacy::deserialize return a decode error: no value, no default, and
\* convert is not called.
C7_NeitherShapeFails ==
  (Decoded /\ IsErr(AsNew) /\ IsErr(AsOld)) =>
    /\ IsErr(outcome)
    /\ outcome[2][1] = "de::Error"
    /\ variant = "None"
    /\ calls = <<>>

\* C7 witness: 65536 is neither a u16 nor a Vec<u8>
C7_Witness ==
  /\ op = "Legacy::deserialize"
  /\ conv = Compose(TryConvertOrDefault(U16, U8), Collect(U8))
  /\ wire = WU64(65536)
  /\ IsErr(outcome)

\* v is a value of type t
RECURSIVE HasType(_, _)
HasType(v, t) ==
  CASE IsInt(t) -> v[1] = "int" /\ v[2] <= IntMax(t)
    [] t = StringT -> v[1] = "string"
    [] t[1] = "Vec" ->
         v[1] = "vec" /\ \A i \in 1..Len(v[2]) : HasType(v[2][i], t[2])
    [] t[1] = "BTreeMap" ->
         v[1] = "map" /\ \A k \in DOMAIN v[2] :
                           HasType(k, t[2]) /\ HasType(v[2][k], t[3])
    [] t[1] = "Result" ->
         \/ v[1] = "Ok" /\ HasType(v[2], t[2])
         \/ v[1] = "Err" /\ HasType(v[2], t[3])
    [] t = TryFromIntError \/ t = ParseIntError ->
         v[1] = "error" /\ v[2] \in ErrorKinds(t)

\* the value a document was serialized from, without its Legacy holder
Plain(v) == IF v[1] = "Legacy" THEN Legacy_into_inner(v) ELSE v

\* C3: a value v of the target type T, serialized as itself or as
\* Legacy::from(v), decodes through the resolver to a value equal to v,
\* whatever the converter and its old shape are.
C3_NewShapeRoundTrip ==
  (Decoded /\ src # None /\ src[1] # "OldFoo" /\ HasType(Plain(src), Output(conv))) =>
    /\ IsOk(outcome)
    /\ Value = Plain(src)
    /\ op = "Legacy::deserialize" => outcome[2] = Legacy_from(Plain(src))

\* C3 witness: Legacy::from("a") written and read back as
\* Legacy<Compose<ParseOrDefault<u8>, ToString<u8>>, String>, whose old shape
\* is text as well
C3_Witness ==
  /\ op = "Legacy::deserialize"
  /\ src = Legacy_from(StrV(<<"a">>))
  /\ conv = Compose(ParseOrDefault(U8), ToString(U8))
  /\ outcome = Ok(Legacy_from(StrV(<<"a">>)))

\* the one-element Vec the legacy scalar n becomes under
\* Compose<TryConvertOrDefault<u16, u8>, Collect<u8, Vec<u8>>>
OneElement(n) == VecV(<<IF n <= 255 THEN IntV(n) ELSE IntV(0)>>)

\* C4: a legacy scalar met where a collection is expected decodes, through
\* Compose<TryConvertOrDefault<T, U>, Collect<U, C>>, to a collection of
\* exactly one element, the converted scalar; {"val": 5} decodes to
\* vals == [5]; Collect::convert(x) alone is the collection of the one
\* element x.
C4_LegacyScalarIntoCollection ==
  /\ (Decoded /\ conv = NewFoo_vals /\ wire[1] = "U64" /\ wire[2] <= 65535) =>
       /\ IsOk(outcome)
       /\ Len(Value[2]) = 1
       /\ Value = OneElement(wire[2])
  /\ (op = "NewFoo::deserialize" /\ src # None /\ src[1] = "OldFoo") =>
       outcome = Ok(NewFoo(OneElement(src[2][2])))
  /\ (op = "convert" /\ conv[1] = "Collect") =>
       (outcome[1] = "vec" /\ Len(outcome[2]) = 1 /\ outcome[2][1] = arg)

\* C4 witness: simple_test
C4_Witness ==
  /\ op = "NewFoo::deserialize"
  /\ src = <<"OldFoo", IntV(5)>>
  /\ wire = WMap(<< <<WStr(<<"v", "a", "l">>), WU64(5)>> >>)
  /\ outcome = Ok(NewFoo(VecV(<<IntV(5)>>)))

\* C5: TryConvertOrDefault::convert and ParseOrDefault::convert always return
\* a plain value of the output type: the converted or parsed value when the
\* conversion succeeds, the default (0) when it fails; so a document that
\* matches their old shape never fails to decode: "5" gives 5 and unparsable
\* text gives 0 through Legacy<ParseOrDefault<u8>, u8>.
C5_OrDefaultNeverFails ==
  /\ (op = "convert" /\ conv[1] = "TryConvertOrDefault") =>
       outcome = (IF arg[2] <= IntMax(conv[3]) THEN arg ELSE IntV(0))
  /\ (op = "convert" /\ conv[1] = "ParseOrDefault") =>
       /\ HasType(outcome, conv[2])
       /\ IsOk(FromStr(conv[2], arg[2])) => outcome = FromStr(conv[2], arg[2])[2]
       /\ IsErr(FromStr(conv[2], arg[2])) => outcome = IntV(0)
       /\ arg = StrV(<<"5">>) => outcome = IntV(5)
  /\ (Decoded /\ conv[1] \in {"TryConvertOrDefault", "ParseOrDefault"} /\ IsOk(AsOld)) =>
       (IsOk(outcome) /\ HasType(Value, Output(conv)))
  /\ (op = "Legacy::deserialize" /\ conv = ParseOrDefault(U8) /\ wire[1] = "Str") =>
       /\ IsOk(outcome)
       /\ wire[2] = <<"5">> => Legacy_deref(outcome[2]) = IntV(5)
       /\ IsErr(FromStr(U8, wire[2])) => Legacy_deref(outcome[2]) = IntV(0)

\* C5 witness: unparsable text decodes to 0
C5_Witness ==
  /\ op = "Legacy::deserialize"
  /\ conv = ParseOrDefault(U8)
  /\ wire = WStr(<<"a">>)
  /\ outcome = Ok(Legacy_from(IntV(0)))

\* the plain fallible converter's native conversion fails on the old-shaped
\* document at hand
NativeFailure ==
  /\ Decoded
  /\ conv[1] \in {"TryConvert", "Parse"}
  /\ IsErr(AsNew)
  /\ IsOk(AsOld)
  /\ conv[1] = "TryConvert" => IsErr(try_into(AsOld[2], conv[3]))
  /\ conv[1] = "Parse" => IsErr(FromStr(conv[2], AsOld[2][2]))

\* C6 as stated: when TryConvert or Parse is selected and the native
\* conversion fails on an old-shaped document, the decode call returns its
\* error outcome.
C6_Original == NativeFailure => IsErr(outcome)

\* C6 amended: in that case the decode call succeeds, and the value it
\* returns is the converter's Result output in its Err variant, carrying the
\* native conversion error.
C6_FailureIsAValue ==
  NativeFailure =>
    /\ IsOk(outcome)
    /\ IsErr(Value)
    /\ Value[2][1] = "error"
    /\ conv[1] = "TryConvert" => Value = Err(Error("TryFromIntError"))
    /\ conv[1] = "Parse" => Value = FromStr(conv[2], AsOld[2][2])

\* C6 witness: 256 does not fit u8
C6_Witness ==
  /\ op = "de"
  /\ conv = TryConvert(U16, U8)
  /\ wire = WU64(256)
  /\ outcome = Ok(Err(Error("TryFromIntError")))

\* C8: Compose<A, B>::convert(x) = B::convert(A::convert(x)), Identity::convert(x)
\* = x, and composing with Identity on either side changes nothing.
C8_ComposeOrder ==
  op = "convert" =>
    /\ conv[1] = "Compose" => outcome = convert(conv[3], convert(conv[2], arg))
    /\ conv[1] = "Identity" => outcome = arg
    /\ (conv[1] = "Compose" /\ conv[2][1] = "Identity") => outcome = convert(conv[3], arg)
    /\ (conv[1] = "Compose" /\ conv[3][1] = "Identity") => outcome = convert(conv[2], arg)

\* C8 witness: 255 rendered as text and then wrapped, not the other way round
C8_Witness ==
  /\ op = "convert"
  /\ conv = Compose(Collect(U8), Map(ToString(U8)))
  /\ arg = IntV(255)
  /\ outcome = VecV(<<StrV(<<"2", "5", "5">>)>>)

\* C9: CollectDefaultKey::convert(x) is a map of exactly one entry, whose key
\* is K::default() (the empty String) and whose value is x; a bare scalar
\* decoded into a map-typed field gives that map.
C9_DefaultKeyedSingleton ==
  /\ (op = "convert" /\ conv[1] = "CollectDefaultKey") =>
       /\ outcome[1] = "map"
       /\ Cardinality(DOMAIN outcome[2]) = 1
       /\ DOMAIN outcome[2] = {StrV(<<>>)}
       /\ outcome[2][StrV(<<>>)] = arg
  /\ (Decoded /\ conv = CollectDefaultKey(U8) /\ wire[1] = "U64" /\ wire[2] <= 255) =>
       /\ IsOk(outcome)
       /\ DOMAIN Value[2] = {StrV(<<>>)}
       /\ Value[2][StrV(<<>>)] = IntV(wire[2])

\* C9 witness: the bare 5 becomes {"": 5}
C9_Witness ==
  /\ op = "de"
  /\ conv = CollectDefaultKey(U8)
  /\ wire = WU64(5)
  /\ outcome = Ok(MapV([k \in {StrV(<<>>)} |-> IntV(5)]))

\* C10: a Legacy holder is Legacy::from of the plain value that went through
\* the same from / default / clone / deref_mut writes; deref, as_ref, borrow
\* and into_inner give that value; eq, partial_cmp, cmp, hash and fmt of
\* holders give what the same operation gives on the plain values.
C10_LegacyTransparent ==
  /\ \A i \in Slots : hold[i] # None =>
       /\ hold[i] = Legacy_from(plain[i])
       /\ Legacy_eq(hold[i], hold[i])
       /\ Legacy_deref(hold[i]) = plain[i]
       /\ Legacy_as_ref(hold[i]) = plain[i]
       /\ Legacy_borrow(hold[i]) = plain[i]
       /\ Legacy_into_inner(hold[i]) = plain[i]
       /\ Legacy_fmt(hold[i]) = fmt(plain[i])
       /\ Legacy_hash(hold[i], <<>>) = hash(plain[i], <<>>)
  /\ \A i, j \in Slots : (hold[i] # None /\ hold[j] # None) =>
       /\ Legacy_eq(hold[i], hold[j]) = (plain[i] = plain[j])
       /\ Legacy_partial_cmp(hold[i], hold[j]) = partial_cmp(plain[i], plain[j])
       /\ Legacy_cmp(hold[i], hold[j]) = cmp(plain[i], plain[j])
       /\ (Legacy_hash(hold[i], <<>>) = Legacy_hash(hold[j], <<>>))
            = (hash(plain[i], <<>>) = hash(plain[j], <<>>))
  /\ got # None => got[1] = got[2]

\* C10 witness: two holders of different values, after an into_inner
C10_Witness ==
  /\ hold[1] = Legacy_from(IntV(5))
  /\ hold[2] = Legacy_from(IntV(256))
  /\ Legacy_cmp(hold[1], hold[2]) = "Less"
  /\ got = <<IntV(0), IntV(0)>>

====
